---- MODULE Spec2Model ----
(***************************************************************************)
(* ContinuousTapControl (pandapower/control/controller/trafo):             *)
(* a continuous tap changer controller driven by an outer power flow loop. *)
(*                                                                         *)
(* Numbers.  The program computes in floats; the model computes exactly,   *)
(* in fixed point:                                                         *)
(*   - voltages (vm_pu, u_set) are integers in units of 1/VScale pu;       *)
(*   - tap positions (tap_pos, tap_min, tap_max) are integers in units of  *)
(*     1/TapScale tap;                                                     *)
(*   - tap_step_percent is an integer in tenths of a percent;              *)
(*   - t_nom and tol are fractions [num, den].                             *)
(* The network data below is chosen so that every quotient control_step    *)
(* forms is a whole number of tap units (ExactQuotients).                  *)
(***************************************************************************)
EXTENDS Integers, Sequences, FiniteSets, TLC

VARIABLES
    net_tap_pos,      \* net[table].tap_pos : table -> (index -> tap units)
    net_tap_dtype,    \* dtype of the tap_pos column of each table
    net_in_service,   \* net[table].in_service : table -> (index -> BOOLEAN)
    res_bus_vm_pu,    \* net.res_bus.vm_pu : bus -> voltage units
    ctrl,             \* the controller objects constructed so far (at most one)
    lastOp,           \* the operation that produced this state
    raised,           \* the exception the last operation raised, or "none"
    ret,              \* the value is_converged returned, if no operation but
                      \* control steps followed it; FALSE otherwise
    nsteps            \* number of control_step calls so far

vars == <<net_tap_pos, net_tap_dtype, net_in_service, res_bus_vm_pu,
          ctrl, lastOp, raised, ret, nsteps>>

net == <<net_tap_pos, net_tap_dtype, net_in_service, res_bus_vm_pu>>

\* ------------------------------------------------------------------ scales
VScale == 10000
TapScale == 1000

\* ------------------------------------------------------------------ bounds
MaxSteps == 2

\* Voltages a power flow may leave at the controlled bus: far below 1.0,
\* 1.0, and 1.0009 / 1.0012 (the two sides of the default tolerance).
VoltSet == {9800, 10000, 10009, 10012}
\* Setpoints: 1.0 and 0.999 (1.0 measured against 0.999 deviates by exactly
\* the default tolerance).
USetSet == {9990, 10000}
\* Tap positions the tables hold when the network is built (whole taps):
\* below tap_min and at tap_max.
InitTaps == {-3, 2}
\* Tap positions another party may write into the table (continuous):
\* tap_min and a position inside the range.
ExtTaps == {-2000, 1500}

\* ------------------------------------------------------- static network data
Tables == {"trafo", "trafo3w"}
Ids == {0, 1}
Buses == {0, 1, 2}
Sides == {"hv", "mv", "lv"}
TrafoTypes == {"2W", "3W"}

\* net.bus.vn_kv
bus_vn_kv == [b \in Buses |-> IF b = 0 THEN 110 ELSE IF b = 1 THEN 20 ELSE 10]

\* The static columns of a row of net.trafo / net.trafo3w (every row of a
\* table carries the same ratings here).
TrafoRow ==
    [hv_bus |-> 0, lv_bus |-> 1, vn_hv_kv |-> 110, vn_lv_kv |-> 20,
     tap_min |-> -2000, tap_max |-> 2000, tap_step_percent |-> 25]

Trafo3wRow ==
    [hv_bus |-> 0, mv_bus |-> 1, lv_bus |-> 2,
     vn_hv_kv |-> 110, vn_mv_kv |-> 40, vn_lv_kv |-> 5,
     tap_min |-> -2000, tap_max |-> 2000, tap_step_percent |-> 10]

StaticRow(table) == IF table = "trafo" THEN TrafoRow ELSE Trafo3wRow

\* ------------------------------------------------------------- arithmetic
Abs(x) == IF x < 0 THEN -x ELSE x
Min(a, b) == IF a < b THEN a ELSE b
Max(a, b) == IF a > b THEN a ELSE b

\* Mutation of Clip: the lower bound is not applied.
ClipUpperOnly(a, a_min, a_max) == Min(a, a_max)

\* np.clip(a, a_min, a_max) = minimum(maximum(a, a_min), a_max)
Clip(a, a_min, a_max) == Min(Max(a, a_min), a_max)

\* a/b < c/d for fractions with positive denominators
FracLess(a, b, c, d) == a * d < c * b

\* Tolerances: the default, tol=1e-3.
TolSet == {[num |-> 1, den |-> 1000]}

\* Series.astype(float) on a column of whole taps: the value n becomes the
\* continuous position n.0, i.e. n * TapScale tap units.
AsFloat(n) == n * TapScale

\* The tap position stored at net[table].at[id, "tap_pos"], in tap units.
TapPosAt(table, id) ==
    IF net_tap_dtype[table] = "int64"
    THEN AsFloat(net_tap_pos[table][id])
    ELSE net_tap_pos[table][id]

\* ------------------------------------------------------------ construction
\* TrafoController.__init__ : the table selected by the topology.
TrafoTable(trafotype) == IF trafotype = "2W" THEN "trafo" ELSE "trafo3w"

\* TrafoController.__init__ fails when the regulated side names no bus
\* column of the table (net.trafo has no "mv_bus").
BaseInitFails(side, trafotype) ==
    (side \o "_bus") \notin DOMAIN StaticRow(TrafoTable(trafotype))

\* The attributes TrafoController.__init__ leaves on the object: controlled
\* bus, tap metadata, and the tap position read from the table.
BaseAttrs(tid, side, trafotype, tol, tap_side_coeff, tap_sign) ==
    LET table == TrafoTable(trafotype)
        row == StaticRow(table)
    IN  [tid |-> tid, side |-> side, trafotype |-> trafotype,
         trafotable |-> table,
         controlled_bus |-> row[side \o "_bus"],
         tap_min |-> row.tap_min, tap_max |-> row.tap_max,
         tap_step_percent |-> row.tap_step_percent,
         tap_side_coeff |-> tap_side_coeff, tap_sign |-> tap_sign,
         tap_pos |-> TapPosAt(table, tid),
         tol |-> tol]

\* Lines 47-58: the attribute t_nom as a fraction, <<>> when no branch of
\* the if/elif chain assigns it.
TNom(tid, side, trafotype) ==
    LET t == StaticRow(TrafoTable(trafotype))
    IN  IF trafotype = "2W" \/ side = "lv"
        THEN << [num |-> t.vn_lv_kv * bus_vn_kv[t.hv_bus],
                 den |-> t.vn_hv_kv * bus_vn_kv[t.lv_bus]] >>
        ELSE IF side = "mv"
        THEN << [num |-> t.vn_mv_kv * bus_vn_kv[t.hv_bus],
                 den |-> t.vn_hv_kv * bus_vn_kv[t.mv_bus]] >>
        ELSE << >>

\* Lines 63-66: the tap_pos column of the table of this topology becomes float.
CoerceTapPos(trafotype) ==
    LET table == TrafoTable(trafotype)
    IN  /\ net_tap_pos' = [net_tap_pos EXCEPT
                              ![table] = [i \in Ids |-> TapPosAt(table, i)]]
        /\ net_tap_dtype' = [net_tap_dtype EXCEPT ![table] = "float64"]

\* ContinuousTapControl.__init__
Construct(tid, u_set, tol, side, trafotype, check_tap_bounds, tap_side_coeff, tap_sign) ==
    /\ lastOp = "none"
    /\ lastOp' = "__init__"
    /\ ret' = FALSE
    /\ UNCHANGED <<net_in_service, res_bus_vm_pu, nsteps>>
    /\ IF BaseInitFails(side, trafotype)
       THEN /\ raised' = "ConfigurationError"
            /\ UNCHANGED <<ctrl, net_tap_pos, net_tap_dtype>>
       ELSE /\ raised' = "none"
            /\ ctrl' = << [t_nom |-> TNom(tid, side, trafotype),
                           check_tap_bounds |-> check_tap_bounds,
                           u_set |-> u_set]
                          @@ BaseAttrs(tid, side, trafotype, tol,
                                       tap_side_coeff, tap_sign) >>
            /\ CoerceTapPos(trafotype)

\* ------------------------------------------------------------ control_step
\* Lines 73-74: tc = ud / tap_step_percent * 100 / t_nom, in tap units.
\* ud is in 1/VScale pu and tap_step_percent in tenths of a percent, so
\* tc = ud * 10 * 100 * den / (VScale * tap_step_percent * num) taps.
\* UnitFactor is the whole number 10 * 100 * TapScale / VScale.
UnitFactor == (1000 * TapScale) \div VScale

TapCorrection(c, u) ==
    LET ud == u - c.u_set
    IN  (ud * UnitFactor * c.t_nom[1].den)
            \div (c.tap_step_percent * c.t_nom[1].num)

\* Mutation of UpdatedTapPos: the correction is applied with the wrong sign.
UpdatedTapPosMinus(c, u) ==
    c.tap_pos - TapCorrection(c, u) * c.tap_side_coeff * c.tap_sign

\* Line 75: self.tap_pos += tc * self.tap_side_coeff * self.tap_sign
UpdatedTapPos(c, u) ==
    c.tap_pos + TapCorrection(c, u) * c.tap_side_coeff * c.tap_sign

\* Mutation of BoundedTapPos: the clamp is applied whatever check_tap_bounds.
BoundedTapPosAlways(c, u) == Clip(UpdatedTapPos(c, u), c.tap_min, c.tap_max)

\* Lines 76-77: the clamp to [tap_min, tap_max] under check_tap_bounds.
BoundedTapPos(c, u) ==
    IF c.check_tap_bounds
    THEN Clip(UpdatedTapPos(c, u), c.tap_min, c.tap_max)
    ELSE UpdatedTapPos(c, u)

\* Mutation of WrittenTapPos: the table gets the value before the clamp.
WrittenTapPosUnclamped(c, u) == UpdatedTapPos(c, u)

\* Line 80: the value written to net[trafotable].at[tid, "tap_pos"].
WrittenTapPos(c, u) == BoundedTapPos(c, u)

\* Mutation of WrittenTable: the two-winding table is always written.
WrittenTableTrafo(c) == "trafo"

\* Line 80: the table written.
WrittenTable(c) == c.trafotable

\* ContinuousTapControl.control_step.  Without the attribute t_nom, line 74
\* raises AttributeError before anything is assigned.
ControlStep ==
    /\ Len(ctrl) = 1
    /\ nsteps < MaxSteps
    /\ nsteps' = nsteps + 1
    /\ lastOp' = "control_step"
    /\ UNCHANGED <<net_tap_dtype, net_in_service, res_bus_vm_pu, ret>>
    /\ LET c == ctrl[1]
           u == res_bus_vm_pu[c.controlled_bus]
       IN  IF c.t_nom = << >>
           THEN /\ raised' = "AttributeError"
                /\ UNCHANGED <<ctrl, net_tap_pos>>
           ELSE /\ raised' = "none"
                /\ ctrl' = << [c EXCEPT !.tap_pos = BoundedTapPos(c, u)] >>
                /\ net_tap_pos' = [net_tap_pos EXCEPT
                       ![WrittenTable(c)][c.tid] = WrittenTapPos(c, u)]

\* ------------------------------------------------------------ is_converged
\* Mutation of Saturated: the second branch repeats the first.
SaturatedSameDirection(c, u, tap_pos) ==
    /\ c.check_tap_bounds
    /\ c.tap_side_coeff * c.tap_sign \in {1, -1}
    /\ \/ u < c.u_set /\ tap_pos = c.tap_min
       \/ u > c.u_set /\ tap_pos = c.tap_max

\* Lines 94-104: the four saturation cases.
Saturated(c, u, tap_pos) ==
    /\ c.check_tap_bounds
    /\ \/ /\ c.tap_side_coeff * c.tap_sign = 1
          /\ \/ u < c.u_set /\ tap_pos = c.tap_min
             \/ u > c.u_set /\ tap_pos = c.tap_max
       \/ /\ c.tap_side_coeff * c.tap_sign = -1
          /\ \/ u > c.u_set /\ tap_pos = c.tap_min
             \/ u < c.u_set /\ tap_pos = c.tap_max

\* Mutation of WithinTol: the comparison is not strict.
WithinTolNonStrict(c, u) ==
    ~FracLess(c.tol.num, c.tol.den, Abs(u - c.u_set), u)

\* Lines 92, 105: abs(1 - u_set / u) < tol, for u > 0.
WithinTol(c, u) == FracLess(Abs(u - c.u_set), u, c.tol.num, c.tol.den)

\* Line 88: the element's in_service flag in the table.
ElementInService(c) == net_in_service[c.trafotable][c.tid]

\* Mutation of IsConvergedRet: the in_service flag is not consulted.
IsConvergedRetIgnoringService(c, u, tap_pos) ==
    Saturated(c, u, tap_pos) \/ WithinTol(c, u)

\* The value is_converged returns.
IsConvergedRet(c, u, tap_pos) ==
    IF ~ElementInService(c)
    THEN TRUE
    ELSE Saturated(c, u, tap_pos) \/ WithinTol(c, u)

\* Line 91: the in-memory tap position after is_converged; the refresh is
\* skipped by the early return of line 89.
RefreshedTapPos(c) ==
    IF ~ElementInService(c)
    THEN c.tap_pos
    ELSE TapPosAt(c.trafotable, c.tid)

\* ContinuousTapControl.is_converged
IsConverged ==
    /\ Len(ctrl) = 1
    /\ lastOp' = "is_converged"
    /\ raised' = "none"
    /\ LET c == ctrl[1]
           u == res_bus_vm_pu[c.controlled_bus]
       IN  /\ ret' = IsConvergedRet(c, u, RefreshedTapPos(c))
           /\ ctrl' = << [c EXCEPT !.tap_pos = RefreshedTapPos(c)] >>
    /\ UNCHANGED <<net, nsteps>>

\* ------------------------------------------------------------- environment
\* The outer loop's power flow leaves a new solved voltage at the
\* controlled bus (the controller reads no other bus).
RunPP(v) ==
    /\ Len(ctrl) = 1
    /\ res_bus_vm_pu' = [res_bus_vm_pu EXCEPT ![ctrl[1].controlled_bus] = v]
    /\ lastOp' = "env"
    /\ raised' = "none"
    /\ ret' = FALSE
    /\ UNCHANGED <<net_tap_pos, net_tap_dtype, net_in_service, ctrl, nsteps>>

\* Another party (the driver, another controller) sets the tap position of
\* the controlled transformer in the table.
ExternalTapWrite(t) ==
    /\ Len(ctrl) = 1
    /\ net_tap_pos' = [net_tap_pos EXCEPT ![ctrl[1].trafotable][ctrl[1].tid] = t]
    /\ lastOp' = "env"
    /\ raised' = "none"
    /\ ret' = FALSE
    /\ UNCHANGED <<net_tap_dtype, net_in_service, res_bus_vm_pu, ctrl, nsteps>>

\* The controlled transformer is switched in or out of service.
SetInService(b) ==
    /\ Len(ctrl) = 1
    /\ net_in_service' =
           [net_in_service EXCEPT ![ctrl[1].trafotable][ctrl[1].tid] = b]
    /\ lastOp' = "env"
    /\ raised' = "none"
    /\ ret' = FALSE
    /\ UNCHANGED <<net_tap_pos, net_tap_dtype, res_bus_vm_pu, ctrl, nsteps>>

\* ------------------------------------------------------------ specification
Init ==
    /\ \E t0 \in InitTaps :
          net_tap_pos = [tb \in Tables |-> [i \in Ids |-> t0]]
    /\ net_tap_dtype = [tb \in Tables |-> "int64"]
    /\ net_in_service = [tb \in Tables |-> [i \in Ids |-> TRUE]]
    /\ res_bus_vm_pu = [b \in Buses |-> VScale]
    /\ ctrl = << >>
    /\ lastOp = "none"
    /\ raised = "none"
    /\ ret = FALSE
    /\ nsteps = 0

Next ==
    \/ \E tid \in Ids, u_set \in USetSet, tol \in TolSet, side \in Sides,
          trafotype \in TrafoTypes, check_tap_bounds \in BOOLEAN,
          tap_side_coeff \in {-1, 1}, tap_sign \in {-1, 1} :
          Construct(tid, u_set, tol, side, trafotype, check_tap_bounds,
                    tap_side_coeff, tap_sign)
    \/ ControlStep
    \/ IsConverged
    \/ \E v \in VoltSet : RunPP(v)
    \/ \E t \in ExtTaps : ExternalTapWrite(t)
    \/ \E b \in BOOLEAN : SetInService(b)

Spec == Init /\ [][Next]_vars

\* Every quotient control_step forms is a whole number of tap units.
ExactQuotients ==
    \A c \in {ctrl[i] : i \in 1..Len(ctrl)} : \A u \in VoltSet :
        c.t_nom # << >> =>
            /\ UnitFactor * VScale = 1000 * TapScale
            /\ (((u - c.u_set) * UnitFactor * c.t_nom[1].den)
                    % (c.tap_step_percent * c.t_nom[1].num)) = 0

\* ------------------------------------------------------------------ claims
Built == Len(ctrl) = 1
Self == ctrl[1]
\* The measured voltage at the controlled bus.
MeasuredVoltage == res_bus_vm_pu[Self.controlled_bus]
\* The table selected by the controller's topology.
TopologyTable == IF Self.trafotype = "2W" THEN "trafo" ELSE "trafo3w"
\* The tap position of the controlled transformer in the shared table.
TableTapPos == TapPosAt(TopologyTable, Self.tid)
InBounds(t) == Self.tap_min <= t /\ t <= Self.tap_max
\* A control step has just returned normally.
AfterStep == Built /\ lastOp = "control_step" /\ raised = "none"
\* is_converged has just returned.
AfterConverged == Built /\ lastOp = "is_converged"
InService == net_in_service[TopologyTable][Self.tid]
Direction == Self.tap_side_coeff * Self.tap_sign
\* The four saturation cases of the specification.
SaturationCase ==
    \/ Direction = 1 /\ MeasuredVoltage < Self.u_set /\ Self.tap_pos = Self.tap_min
    \/ Direction = 1 /\ MeasuredVoltage > Self.u_set /\ Self.tap_pos = Self.tap_max
    \/ Direction = -1 /\ MeasuredVoltage > Self.u_set /\ Self.tap_pos = Self.tap_min
    \/ Direction = -1 /\ MeasuredVoltage < Self.u_set /\ Self.tap_pos = Self.tap_max
\* |1 - setpoint / measuredVoltage| < tolerance
DeviationBelowTol ==
    Abs(MeasuredVoltage - Self.u_set) * Self.tol.den < Self.tol.num * MeasuredVoltage

\* C1: with check_tap_bounds true and tap_min <= tap_max, after every
\* control step the tap position, in memory and in the shared table, lies in
\* [tap_min, tap_max].
C1_TapWithinBounds ==
    (AfterStep /\ Self.check_tap_bounds /\ Self.tap_min <= Self.tap_max)
        => (InBounds(Self.tap_pos) /\ InBounds(TableTapPos))

\* C1 witness: the first step, taken at the setpoint with bounds enforced,
\* has left the tap at tap_min.
C1_Witness ==
    /\ AfterStep /\ Self.check_tap_bounds /\ nsteps = 1
    /\ MeasuredVoltage = Self.u_set
    /\ Self.tap_pos = Self.tap_min /\ TableTapPos = Self.tap_min

\* C2: at the end of every control step the tap_pos stored in the shared
\* table equals the in-memory tap_pos.
C2_TableEqualsMemory == AfterStep => TableTapPos = Self.tap_pos

\* C2 witness: a step pushed upwards with bounds enforced ended at tap_max,
\* in memory and in the table.
C2_Witness ==
    /\ AfterStep /\ Self.check_tap_bounds /\ Direction = 1
    /\ MeasuredVoltage > Self.u_set
    /\ Self.tap_pos = Self.tap_max /\ TableTapPos = Self.tap_max

\* C3: in service and with check_tap_bounds true, is_converged returns true
\* in each of the four saturation cases, whatever the deviation.
C3_SaturationConverges ==
    (AfterConverged /\ InService /\ Self.check_tap_bounds /\ SaturationCase)
        => ret = TRUE

\* C3 witness: with a rising tap lowering the voltage, is_converged returned
\* true at tap_min with the voltage above the setpoint, outside the tolerance.
C3_Witness ==
    /\ AfterConverged /\ InService /\ Self.check_tap_bounds
    /\ Direction = -1 /\ MeasuredVoltage > Self.u_set
    /\ Self.tap_pos = Self.tap_min
    /\ ~DeviationBelowTol /\ ret = TRUE

C5_OutOfServiceConverges == (AfterConverged /\ ~InService) => ret = TRUE

\* C5 witness: out of service with the voltage outside the tolerance and no
\* saturation, is_converged returned true.
C5_Witness ==
    /\ AfterConverged /\ ~InService /\ ~DeviationBelowTol
    /\ ~SaturationCase /\ ret = TRUE

\* A control step returns normally in this transition, taken at the setpoint.
StepAtSetpoint ==
    /\ Built /\ lastOp' = "control_step" /\ raised' = "none"
    /\ nsteps' = nsteps + 1
    /\ MeasuredVoltage = Self.u_set

\* C6 (as stated): at the setpoint a control step leaves tap_pos unchanged,
\* in memory and in the shared table, for every starting position and with
\* check_tap_bounds true or false.
C6_Original ==
    [][StepAtSetpoint =>
          /\ ctrl'[1].tap_pos = Self.tap_pos
          /\ TableTapPos' = TableTapPos]_vars

\* C6 (amended): at the setpoint a control step leaves the in-memory
\* tap_pos unchanged when check_tap_bounds is false or the position lies in
\* [tap_min, tap_max], moves it to the nearest bound otherwise, and the
\* shared table then holds the in-memory value.
C6_Amended ==
    [][StepAtSetpoint =>
          /\ (~Self.check_tap_bounds \/ InBounds(Self.tap_pos))
                => ctrl'[1].tap_pos = Self.tap_pos
          /\ (Self.check_tap_bounds /\ Self.tap_pos < Self.tap_min)
                => ctrl'[1].tap_pos = Self.tap_min
          /\ (Self.check_tap_bounds /\ Self.tap_pos > Self.tap_max)
                => ctrl'[1].tap_pos = Self.tap_max
          /\ TableTapPos' = ctrl'[1].tap_pos]_vars

\* C6 witness: a step at the setpoint without bounds enforcement has kept a
\* tap position below tap_min.
C6_Witness ==
    /\ AfterStep /\ ~Self.check_tap_bounds
    /\ MeasuredVoltage = Self.u_set
    /\ Self.tap_pos < Self.tap_min /\ TableTapPos = Self.tap_pos

\* C7 (as stated): no controller without t_nom is ever constructed; an
\* invalid topology/side combination makes the construction fail.
C7_NoControllerWithoutTNom == Built => Self.t_nom # << >>

\* A control step or is_converged is the operation of this transition.
ControllerCall == Built /\ lastOp' \in {"control_step", "is_converged"}

\* C8: control_step and is_converged write no shared state but tap_pos of
\* the controlled transformer in the table of its topology, only
\* control_step writes it, and neither changes u_set, tol, check_tap_bounds
\* or t_nom.
C8_Frame ==
    [][ControllerCall =>
          /\ UNCHANGED <<net_tap_dtype, net_in_service, res_bus_vm_pu>>
          /\ \A tb \in Tables : \A i \in Ids :
                (tb # TopologyTable \/ i # Self.tid)
                    => net_tap_pos'[tb][i] = net_tap_pos[tb][i]
          /\ lastOp' = "is_converged" => net_tap_pos' = net_tap_pos
          /\ ctrl'[1].u_set = Self.u_set
          /\ ctrl'[1].tol = Self.tol
          /\ ctrl'[1].check_tap_bounds = Self.check_tap_bounds
          /\ ctrl'[1].t_nom = Self.t_nom]_vars

\* C8 witness: a control step of a three-winding controller has written the
\* controlled row of net.trafo3w, which now differs from the other row.
C8_Witness ==
    /\ AfterStep /\ Self.trafotype = "3W"
    /\ net_tap_pos["trafo3w"][Self.tid] # net_tap_pos["trafo3w"][1 - Self.tid]
    /\ net_tap_pos["trafo"][0] = net_tap_pos["trafo"][1]

\* C9 (as stated): every control step computes its update from the tap
\* position stored in the shared table at the time of the call.
C9_StepReadsTable ==
    [][(Built /\ lastOp' = "control_step" /\ raised' = "none"
          /\ nsteps' = nsteps + 1)
        => TableTapPos' =
              BoundedTapPos([Self EXCEPT !.tap_pos = TableTapPos],
                            MeasuredVoltage)]_vars

\* C10: when is_converged has returned true through a saturation case, a
\* control step taken on the same measured voltage leaves the tap position
\* unchanged, in memory and in the table.
C10_SaturationFixpoint ==
    [][(/\ AfterConverged /\ InService /\ Self.check_tap_bounds
        /\ SaturationCase /\ ret = TRUE
        /\ Self.tap_step_percent > 0 /\ Self.tap_min <= Self.tap_max
        /\ lastOp' = "control_step" /\ raised' = "none")
        => /\ ctrl'[1].tap_pos = Self.tap_pos
           /\ TableTapPos' = TableTapPos]_vars

\* C10 witness: is_converged returned true outside the tolerance, control
\* steps followed on the same voltage, and the tap still sits at the
\* saturated bound.
C10_Witness ==
    /\ AfterStep /\ InService /\ Self.check_tap_bounds
    /\ ret = TRUE /\ ~DeviationBelowTol /\ SaturationCase
    /\ TableTapPos = Self.tap_pos

====
